---- MODULE Spec2Model ----
(***************************************************************************)
(* A model of the cucumber basket (src/cucumbers.py): a counter with a     *)
(* capacity, its constructor, its four read-only properties and its two    *)
(* mutators, driven by an arbitrary caller.                                *)
(*                                                                         *)
(* Python integers are unbounded, so no arithmetic wraps.  A method is an  *)
(* operator from the object (and its arguments) to the exception raised    *)
(* and the object afterwards; an action performs one call of a method and  *)
(* records it in last, the record of the call before moving to prev.       *)
(*                                                                         *)
(* The second part models the scenarios of                                 *)
(* src/tests/step_defs/test_cucumbers_steps.py: the basket fixture, the    *)
(* four step handlers and the runner that executes the steps of each       *)
(* scenario in order on the scenario's own basket, stopping at the first   *)
(* exception.  Baskets live in a heap and a scenario holds a reference, as *)
(* Python names do.                                                        *)
(***************************************************************************)
EXTENDS Integers, Sequences, FiniteSets, TLC

\* ---------------------------------------------------------------- bounds
\* Largest initial_count and max_count handed to the constructor.
MaxCap == 3
\* Largest argument handed to add and remove.
MaxArg == 3
\* Arguments of the constructor, add and remove go down to -MaxNeg.
MaxNeg == 2
\* Number of add and remove calls made on one basket.
MaxCalls == 3

\* Largest number written in a step of a scenario.
MaxStepArg == 2
\* Number of When steps of one scenario.
MaxWhens == 2
\* the largest number written in a step of the one-scenario specification
MaxExampleArg == 10
\* number of tests of a session
MaxTests == 3

CtorArgs == (-MaxNeg) .. MaxCap
CallArgs == (-MaxNeg) .. MaxArg

\* ------------------------------------------------------------ exceptions
\* No exception: the call returned.
NoError == "no error"
\* The messages of the four ValueErrors of cucumbers.py.
InitialNegative == "Initial count cannot be negative"
MaxNegative == "Max count cannot be negative"
CapacityExceeded == "Attempted to add too many cucumbers"
Underflow == "Basket is already empty"
\* The two constructor errors.
InvalidArgument == {InitialNegative, MaxNegative}

\* ------------------------------------------------------------ the object
\* The name basket bound to no object.
NoBasket == [none |-> TRUE]

\* __init__ without its second check.
init_unchecked_max(initial_count, cap) ==
    IF initial_count < 0
    THEN [raised |-> InitialNegative, self |-> NoBasket]
    ELSE [raised |-> NoError,
          self |-> [_count |-> initial_count, _max_count |-> cap]]

\* __init__ storing its two arguments in each other's field.
init_swapped(initial_count, cap) ==
    IF initial_count < 0
    THEN [raised |-> InitialNegative, self |-> NoBasket]
    ELSE IF cap < 0
    THEN [raised |-> MaxNegative, self |-> NoBasket]
    ELSE [raised |-> NoError,
          self |-> [_count |-> cap, _max_count |-> initial_count]]

\* __init__: the two checks in the order of the code, then the two fields.
__init__(initial_count, max_count) ==
    IF initial_count < 0
    THEN [raised |-> InitialNegative, self |-> NoBasket]
    ELSE IF max_count < 0
    THEN [raised |-> MaxNegative, self |-> NoBasket]
    ELSE [raised |-> NoError,
          self |-> [_count |-> initial_count, _max_count |-> max_count]]

\* The properties: each is computed from the fields at the time of the read.
count(self) == self._count

max_count(self) == self._max_count

\* full with >= for ==.
full_at_least(self) == count(self) >= max_count(self)

full(self) == count(self) = max_count(self)

empty(self) == count(self) = 0

\* add storing the candidate before the check.
add_store_first(self, n) ==
    LET new_count == count(self) + n
    IN  [raised |-> IF new_count > max_count(self)
                    THEN CapacityExceeded ELSE NoError,
         self |-> [self EXCEPT !._count = new_count]]

\* add with >= for >.
add_off_by_one(self, n) ==
    LET new_count == count(self) + n
    IN  IF new_count >= max_count(self)
        THEN [raised |-> CapacityExceeded, self |-> self]
        ELSE [raised |-> NoError, self |-> [self EXCEPT !._count = new_count]]

\* add growing the basket instead of raising.
add_growing(self, n) ==
    LET new_count == count(self) + n
    IN  IF new_count > max_count(self)
        THEN [raised |-> NoError,
              self |-> [_count |-> new_count, _max_count |-> new_count]]
        ELSE [raised |-> NoError, self |-> [self EXCEPT !._count = new_count]]

\* add ignoring its argument for the default of 1.
add_default_only(self, n) ==
    LET new_count == count(self) + 1
    IN  IF new_count > max_count(self)
        THEN [raised |-> CapacityExceeded, self |-> self]
        ELSE [raised |-> NoError, self |-> [self EXCEPT !._count = new_count]]

\* add comparing the count before the addition with max_count.
add_checks_old_count(self, n) ==
    LET new_count == count(self) + n
    IN  IF count(self) > max_count(self)
        THEN [raised |-> CapacityExceeded, self |-> self]
        ELSE [raised |-> NoError, self |-> [self EXCEPT !._count = new_count]]

\* add filling the basket to max_count instead of raising.
add_saturating(self, n) ==
    LET new_count == count(self) + n
    IN  IF new_count > max_count(self)
        THEN [raised |-> NoError,
              self |-> [self EXCEPT !._count = max_count(self)]]
        ELSE [raised |-> NoError, self |-> [self EXCEPT !._count = new_count]]

\* add: the candidate is checked against max_count only, then stored.
add(self, n) ==
    LET new_count == count(self) + n
    IN  IF new_count > max_count(self)
        THEN [raised |-> CapacityExceeded, self |-> self]
        ELSE [raised |-> NoError, self |-> [self EXCEPT !._count = new_count]]

\* remove storing the candidate before the check.
remove_store_first(self, n) ==
    LET new_count == count(self) - n
    IN  [raised |-> IF new_count < 0 THEN Underflow ELSE NoError,
         self |-> [self EXCEPT !._count = new_count]]

\* remove with <= for <.
remove_off_by_one(self, n) ==
    LET new_count == count(self) - n
    IN  IF new_count <= 0
        THEN [raised |-> Underflow, self |-> self]
        ELSE [raised |-> NoError, self |-> [self EXCEPT !._count = new_count]]

\* remove ignoring its argument for the default of 1.
remove_default_only(self, n) ==
    LET new_count == count(self) - 1
    IN  IF new_count < 0
        THEN [raised |-> Underflow, self |-> self]
        ELSE [raised |-> NoError, self |-> [self EXCEPT !._count = new_count]]

\* remove: the candidate is checked against 0 only, then stored.
remove(self, n) ==
    LET new_count == count(self) - n
    IN  IF new_count < 0
        THEN [raised |-> Underflow, self |-> self]
        ELSE [raised |-> NoError, self |-> [self EXCEPT !._count = new_count]]

\* ----------------------------------------------------------------- state
VARIABLES
    basket,   \* the object, or NoBasket
    last,     \* the last call: method, arguments, object before, outcome
    prev,     \* the call before last
    calls,    \* number of add and remove calls made so far
    total,    \* initial_count plus the signed arguments of all calls so far
    failed,   \* whether some add or remove call so far has raised
    plain     \* whether the basket was constructed with initial_count <=
              \* max_count and no add or remove argument so far was negative

bvars == <<basket, last, prev, calls, total, failed, plain>>

VARIABLES
    basket_capacity,  \* the default max_count, from tests.basketconfig
    heap,             \* the baskets the fixture has created, by object id
    ref,              \* the object id each scenario's basket argument holds
    pc,               \* the phase of each scenario
    step,             \* the last step each scenario executed
    whens             \* number of When steps each scenario executed

svars == <<basket_capacity, heap, ref, pc, step, whens>>

VARIABLES
    example           \* the numbers of the scenario being run: initial, count, total

VARIABLES
    JIRA_ENABLED,     \* whether the three Jira settings are all present
    stats,            \* the outcomes the terminal reporter has collected
    screenshots,      \* number of .png files in SCREENSHOT_DIR
    screenshot_dir,   \* whether SCREENSHOT_DIR exists
    fx,               \* the browser fixture of the test running
    summary           \* how pytest_terminal_summary returned

hvars == <<JIRA_ENABLED, stats, screenshots, screenshot_dir, fx, summary>>

\* What the basket and the step specifications leave alone.
xvars == <<example, hvars>>

vars == <<basket, last, prev, calls, total, failed, plain,
          basket_capacity, heap, ref, pc, step, whens,
          example, JIRA_ENABLED, stats, screenshots, screenshot_dir, fx,
          summary>>

\* The scenarios running, each a test function of its own.
Scenarios == {"s1", "s2"}

\* No step executed yet.
NoStep == [kind |-> "none", arg |-> 0, pre |-> NoBasket, raised |-> NoError]

\* No scenario has started.
NoScenario ==
    /\ heap = <<>>
    /\ ref = [s \in Scenarios |-> 0]
    /\ pc = [s \in Scenarios |-> "uninit"]
    /\ step = [s \in Scenarios |-> NoStep]
    /\ whens = [s \in Scenarios |-> 0]

\* No scenario text chosen.
NoExample == [initial |-> 0, count |-> 0, total |-> 0]

\* The browser fixture before it is requested.
NoFixture == [pc |-> "idle", temp_dir |-> "none", driver |-> "none",
              browser_name |-> "none", outcome |-> "none"]

\* The test session before its first test, Jira reporting switched off.
NoSession ==
    /\ JIRA_ENABLED = FALSE
    /\ stats = <<>>
    /\ screenshots = 0
    /\ screenshot_dir = "exists"
    /\ fx = NoFixture
    /\ summary = "none"

NoCall == [op |-> "none", args |-> <<>>, pre |-> NoBasket,
           raised |-> NoError, ret |-> "None"]

ReadOps == {"count", "max_count", "full", "empty"}

Init ==
    /\ basket = NoBasket
    /\ last = NoCall
    /\ prev = NoCall
    /\ calls = 0
    /\ total = 0
    /\ failed = FALSE
    /\ plain = TRUE
    /\ basket_capacity = 0
    /\ NoScenario
    /\ example = NoExample
    /\ NoSession

\* basket = CucumberBasket(initial_count, max_count), once.
Construct ==
    /\ last.op = "none"
    /\ \E initial_count \in CtorArgs, cap \in CtorArgs :
          LET r == __init__(initial_count, cap)
          IN  /\ basket' = r.self
              /\ last' = [op |-> "__init__", args |-> <<initial_count, cap>>,
                          pre |-> basket, raised |-> r.raised, ret |-> "None"]
              /\ total' = initial_count
              /\ plain' = (initial_count <= cap)
    /\ prev' = last
    /\ UNCHANGED <<calls, failed>>
    /\ UNCHANGED <<svars, xvars>>

\* The arguments tried for add: the range, and the two at the capacity.
AddArgs(self) ==
    CallArgs \cup {max_count(self) - count(self),
                   max_count(self) - count(self) + 1}

\* The arguments tried for remove: the range, and the two at zero.
RemoveArgs(self) == CallArgs \cup {count(self), count(self) + 1}

\* basket.add(n)
Add ==
    /\ basket # NoBasket
    /\ calls < MaxCalls
    /\ \E n \in AddArgs(basket) :
          LET r == add(basket, n)
          IN  /\ basket' = r.self
              /\ last' = [op |-> "add", args |-> <<n>>, pre |-> basket,
                          raised |-> r.raised, ret |-> "None"]
              /\ total' = total + n
              /\ failed' = (failed \/ r.raised # NoError)
              /\ plain' = (plain /\ n >= 0)
    /\ prev' = last
    /\ calls' = calls + 1
    /\ UNCHANGED <<svars, xvars>>

\* basket.remove(n)
Remove ==
    /\ basket # NoBasket
    /\ calls < MaxCalls
    /\ \E n \in RemoveArgs(basket) :
          LET r == remove(basket, n)
          IN  /\ basket' = r.self
              /\ last' = [op |-> "remove", args |-> <<n>>, pre |-> basket,
                          raised |-> r.raised, ret |-> "None"]
              /\ total' = total - n
              /\ failed' = (failed \/ r.raised # NoError)
              /\ plain' = (plain /\ n >= 0)
    /\ prev' = last
    /\ calls' = calls + 1
    /\ UNCHANGED <<svars, xvars>>

\* basket.count clamping the count into 0 .. max_count as it reads.
ReadCountClamping ==
    /\ basket # NoBasket
    /\ last' = [op |-> "count", args |-> <<>>, pre |-> basket,
                raised |-> NoError, ret |-> count(basket)]
    /\ prev' = last
    /\ basket' = [basket EXCEPT !._count =
                     IF @ > basket._max_count THEN basket._max_count
                     ELSE IF @ < 0 THEN 0 ELSE @]
    /\ UNCHANGED <<calls, total, failed, plain>>
    /\ UNCHANGED <<svars, xvars>>

\* basket.count
ReadCount ==
    /\ basket # NoBasket
    /\ last' = [op |-> "count", args |-> <<>>, pre |-> basket,
                raised |-> NoError, ret |-> count(basket)]
    /\ prev' = last
    /\ UNCHANGED <<basket, calls, total, failed, plain>>
    /\ UNCHANGED <<svars, xvars>>

\* basket.max_count
ReadMaxCount ==
    /\ basket # NoBasket
    /\ last' = [op |-> "max_count", args |-> <<>>, pre |-> basket,
                raised |-> NoError, ret |-> max_count(basket)]
    /\ prev' = last
    /\ UNCHANGED <<basket, calls, total, failed, plain>>
    /\ UNCHANGED <<svars, xvars>>

\* basket.full
ReadFull ==
    /\ basket # NoBasket
    /\ last' = [op |-> "full", args |-> <<>>, pre |-> basket,
                raised |-> NoError, ret |-> full(basket)]
    /\ prev' = last
    /\ UNCHANGED <<basket, calls, total, failed, plain>>
    /\ UNCHANGED <<svars, xvars>>

\* basket.empty
ReadEmpty ==
    /\ basket # NoBasket
    /\ last' = [op |-> "empty", args |-> <<>>, pre |-> basket,
                raised |-> NoError, ret |-> empty(basket)]
    /\ prev' = last
    /\ UNCHANGED <<basket, calls, total, failed, plain>>
    /\ UNCHANGED <<svars, xvars>>

Next ==
    \/ Construct
    \/ Add
    \/ Remove
    \/ ReadCount
    \/ ReadMaxCount
    \/ ReadFull
    \/ ReadEmpty

Spec == Init /\ [][Next]_vars

\* ------------------------------------------------------------- scenarios
\* The values tests.basketconfig may give basket_capacity: small enough for
\* a step to exceed it.
Capacities == 1 .. MaxStepArg

\* The numbers written in the steps, after int() has converted them: one
\* negative number and the numbers up to MaxStepArg.
StepArgs == (-1) .. MaxStepArg

\* The message of the AssertionError of the Then step.
AssertionMessage(expected, actual) ==
    "Expected " \o ToString(expected) \o " cucumbers but found "
        \o ToString(actual)

\* The fixture handing every scenario the basket created first.
basket_fixture_shared(h, cap) ==
    IF Len(h) > 0
    THEN [raised |-> NoError, heap |-> h, id |-> 1]
    ELSE LET r == __init__(0, cap)
         IN  [raised |-> r.raised, heap |-> Append(h, r.self), id |-> Len(h) + 1]

\* The basket fixture: a new CucumberBasket(initial_count=0) at each call.
basket_fixture(h, cap) ==
    LET r == __init__(0, cap)
    IN  [raised |-> r.raised, heap |-> Append(h, r.self), id |-> Len(h) + 1]

\* The Given handler logging the exception without raising it again.
basket_has_cucumbers_swallowing(b, initial) ==
    LET r == add(b, initial)
    IN  [raised |-> NoError, self |-> r.self]

\* Given the basket has "N" cucumbers: one add, the exception raised again.
basket_has_cucumbers(b, initial) ==
    LET r == add(b, initial)
    IN  IF r.raised # NoError
        THEN [raised |-> r.raised, self |-> r.self]
        ELSE [raised |-> NoError, self |-> r.self]

\* The When-added handler calling remove, as its neighbour does.
add_cucumbers_removing(b, n) ==
    LET r == remove(b, n)
    IN  IF r.raised # NoError
        THEN [raised |-> r.raised, self |-> r.self]
        ELSE [raised |-> NoError, self |-> r.self]

\* When "N" cucumbers are added: one add, the exception raised again.
add_cucumbers(b, n) ==
    LET r == add(b, n)
    IN  IF r.raised # NoError
        THEN [raised |-> r.raised, self |-> r.self]
        ELSE [raised |-> NoError, self |-> r.self]

\* The When-removed handler calling add, as its neighbour does.
remove_cucumbers_adding(b, n) ==
    LET r == add(b, n)
    IN  IF r.raised # NoError
        THEN [raised |-> r.raised, self |-> r.self]
        ELSE [raised |-> NoError, self |-> r.self]

\* The When-removed handler logging the exception without raising it again.
remove_cucumbers_swallowing(b, n) ==
    LET r == remove(b, n)
    IN  [raised |-> NoError, self |-> r.self]

\* When "N" cucumbers are removed: one remove, the ValueError raised again.
remove_cucumbers(b, n) ==
    LET r == remove(b, n)
    IN  IF r.raised # NoError
        THEN [raised |-> r.raised, self |-> r.self]
        ELSE [raised |-> NoError, self |-> r.self]

\* The Then handler with the two numbers of its message exchanged.
basket_has_total_cucumbers_swapped(b, expected) ==
    LET actual_count == count(b)
    IN  IF actual_count = expected
        THEN [raised |-> NoError, self |-> b]
        ELSE [raised |-> AssertionMessage(actual_count, expected), self |-> b]

\* Then the basket contains "N" cucumbers: count is read and compared.
basket_has_total_cucumbers(b, expected) ==
    LET actual_count == count(b)
    IN  IF actual_count = expected
        THEN [raised |-> NoError, self |-> b]
        ELSE [raised |-> AssertionMessage(expected, actual_count), self |-> b]

\* A scenario format letting a Given step follow a When step.
CanRunGivenAgain(kind, phase) ==
    CASE kind = "given" -> phase \in {"fresh", "when"}
      [] kind \in {"when_add", "when_remove"} -> phase \in {"given", "when"}
      [] kind = "then" -> phase \in {"given", "when"}

\* The order of the steps of a scenario: Given, any Whens, Then.
CanRun(kind, phase) ==
    CASE kind = "given" -> phase = "fresh"
      [] kind \in {"when_add", "when_remove"} -> phase \in {"given", "when"}
      [] kind = "then" -> phase \in {"given", "when"}

\* The basket of scenario s.
BasketOf(s) == heap[ref[s]]

ScenarioInit ==
    /\ basket = NoBasket
    /\ last = NoCall
    /\ prev = NoCall
    /\ calls = 0
    /\ total = 0
    /\ failed = FALSE
    /\ plain = TRUE
    /\ basket_capacity \in Capacities
    /\ NoScenario
    /\ example = NoExample
    /\ NoSession

\* The runner resolves the basket argument of the scenario's first step.
Fixture(s) ==
    /\ pc[s] = "uninit"
    /\ LET r == basket_fixture(heap, basket_capacity)
       IN  /\ heap' = r.heap
           /\ ref' = [ref EXCEPT ![s] = r.id]
           /\ pc' = [pc EXCEPT ![s] =
                        IF r.raised = NoError THEN "fresh" ELSE "aborted"]
    /\ UNCHANGED <<basket_capacity, step, whens>>
    /\ UNCHANGED <<bvars, xvars>>

\* The Given step of scenario s, with the number N of its text.
Given(s) ==
    /\ CanRun("given", pc[s])
    /\ \E N \in StepArgs :
          LET r == basket_has_cucumbers(BasketOf(s), N)
          IN  /\ heap' = [heap EXCEPT ![ref[s]] = r.self]
              /\ step' = [step EXCEPT ![s] =
                             [kind |-> "given", arg |-> N,
                              pre |-> BasketOf(s), raised |-> r.raised]]
              /\ pc' = [pc EXCEPT ![s] =
                           IF r.raised = NoError THEN "given" ELSE "aborted"]
    /\ UNCHANGED <<basket_capacity, ref, whens>>
    /\ UNCHANGED <<bvars, xvars>>

\* A When step of scenario s adding N.
WhenAdd(s) ==
    /\ CanRun("when_add", pc[s])
    /\ whens[s] < MaxWhens
    /\ \E N \in StepArgs :
          LET r == add_cucumbers(BasketOf(s), N)
          IN  /\ heap' = [heap EXCEPT ![ref[s]] = r.self]
              /\ step' = [step EXCEPT ![s] =
                             [kind |-> "when_add", arg |-> N,
                              pre |-> BasketOf(s), raised |-> r.raised]]
              /\ pc' = [pc EXCEPT ![s] =
                           IF r.raised = NoError THEN "when" ELSE "aborted"]
    /\ whens' = [whens EXCEPT ![s] = @ + 1]
    /\ UNCHANGED <<basket_capacity, ref>>
    /\ UNCHANGED <<bvars, xvars>>

\* A When step of scenario s removing N.
WhenRemove(s) ==
    /\ CanRun("when_remove", pc[s])
    /\ whens[s] < MaxWhens
    /\ \E N \in StepArgs :
          LET r == remove_cucumbers(BasketOf(s), N)
          IN  /\ heap' = [heap EXCEPT ![ref[s]] = r.self]
              /\ step' = [step EXCEPT ![s] =
                             [kind |-> "when_remove", arg |-> N,
                              pre |-> BasketOf(s), raised |-> r.raised]]
              /\ pc' = [pc EXCEPT ![s] =
                           IF r.raised = NoError THEN "when" ELSE "aborted"]
    /\ whens' = [whens EXCEPT ![s] = @ + 1]
    /\ UNCHANGED <<basket_capacity, ref>>
    /\ UNCHANGED <<bvars, xvars>>

\* The Then step of scenario s expecting N: the scenario passes or fails.
Then(s) ==
    /\ CanRun("then", pc[s])
    /\ \E N \in StepArgs \cup {count(BasketOf(s))} :
          LET r == basket_has_total_cucumbers(BasketOf(s), N)
          IN  /\ heap' = [heap EXCEPT ![ref[s]] = r.self]
              /\ step' = [step EXCEPT ![s] =
                             [kind |-> "then", arg |-> N,
                              pre |-> BasketOf(s), raised |-> r.raised]]
              /\ pc' = [pc EXCEPT ![s] =
                           IF r.raised = NoError THEN "then" ELSE "failed"]
    /\ UNCHANGED <<basket_capacity, ref, whens>>
    /\ UNCHANGED <<bvars, xvars>>

ScenarioNext ==
    \E s \in Scenarios :
        \/ Fixture(s)
        \/ Given(s)
        \/ WhenAdd(s)
        \/ WhenRemove(s)
        \/ Then(s)

ScenarioSpec == ScenarioInit /\ [][ScenarioNext]_vars

\* ------------------------------------------------------- one scenario
\* The values tests.basketconfig may give basket_capacity when the scenarios
\* of the feature file run: below, at and above the numbers of their steps.
ExampleCapacities == 0 .. 2 * MaxExampleArg

\* The numbers written in the three steps of the scenario, after int() has
\* converted them.
ExampleArgs == 0 .. MaxExampleArg

\* The scenario 'Given the basket has a, When b cucumbers are added, Then
\* the basket contains t' is about to run as the test function "s1".
ExampleInit ==
    /\ basket = NoBasket
    /\ last = NoCall
    /\ prev = NoCall
    /\ calls = 0
    /\ total = 0
    /\ failed = FALSE
    /\ plain = TRUE
    /\ basket_capacity \in ExampleCapacities
    /\ NoScenario
    /\ example \in [initial : ExampleArgs, count : ExampleArgs,
                     total : ExampleArgs]
    /\ NoSession

\* Given the basket has "<initial>" cucumbers.
ExampleGiven ==
    /\ pc["s1"] = "fresh"
    /\ LET r == basket_has_cucumbers(BasketOf("s1"), example.initial)
       IN  /\ heap' = [heap EXCEPT ![ref["s1"]] = r.self]
           /\ step' = [step EXCEPT !["s1"] =
                          [kind |-> "given", arg |-> example.initial,
                           pre |-> BasketOf("s1"), raised |-> r.raised]]
           /\ pc' = [pc EXCEPT !["s1"] =
                        IF r.raised = NoError THEN "given" ELSE "aborted"]
    /\ UNCHANGED <<basket_capacity, ref, whens>>
    /\ UNCHANGED <<bvars, xvars>>

\* When "<count>" cucumbers are added to the basket.
ExampleWhen ==
    /\ pc["s1"] = "given"
    /\ LET r == add_cucumbers(BasketOf("s1"), example.count)
       IN  /\ heap' = [heap EXCEPT ![ref["s1"]] = r.self]
           /\ step' = [step EXCEPT !["s1"] =
                          [kind |-> "when_add", arg |-> example.count,
                           pre |-> BasketOf("s1"), raised |-> r.raised]]
           /\ pc' = [pc EXCEPT !["s1"] =
                        IF r.raised = NoError THEN "when" ELSE "aborted"]
    /\ whens' = [whens EXCEPT !["s1"] = @ + 1]
    /\ UNCHANGED <<basket_capacity, ref>>
    /\ UNCHANGED <<bvars, xvars>>

\* Then the basket contains "<total>" cucumbers.
ExampleThen ==
    /\ pc["s1"] = "when"
    /\ LET r == basket_has_total_cucumbers(BasketOf("s1"), example.total)
       IN  /\ heap' = [heap EXCEPT ![ref["s1"]] = r.self]
           /\ step' = [step EXCEPT !["s1"] =
                          [kind |-> "then", arg |-> example.total,
                           pre |-> BasketOf("s1"), raised |-> r.raised]]
           /\ pc' = [pc EXCEPT !["s1"] =
                        IF r.raised = NoError THEN "then" ELSE "failed"]
    /\ UNCHANGED <<basket_capacity, ref, whens>>
    /\ UNCHANGED <<bvars, xvars>>

ExampleNext ==
    \/ Fixture("s1")
    \/ ExampleGiven
    \/ ExampleWhen
    \/ ExampleThen

ExampleSpec == ExampleInit /\ [][ExampleNext]_vars

\* --------------------------------------------------------- test session
\* The names select_browser returns.
Browsers == {"Chrome", "Firefox", "Edge"}

\* What report_test_results gives pytest_terminal_summary: None, an
\* execution without a key, an execution with a key, or an exception out of
\* the reporting block.
ReportResults == {"None", "no key", "key", "raises"}

\* The browser fixture up to its yield. created: the WebDriver constructor
\* returned; ready: implicitly_wait and maximize_window returned. An
\* exception leaves the try block through finally, which removes temp_dir.
browser_setup(browser_name, created, ready) ==
    IF ~created
    THEN [pc |-> "done", temp_dir |-> "removed", driver |-> "none",
          browser_name |-> browser_name, outcome |-> "error"]
    ELSE IF ~ready
    THEN [pc |-> "done", temp_dir |-> "removed", driver |-> "running",
          browser_name |-> browser_name, outcome |-> "error"]
    ELSE [pc |-> "yielded", temp_dir |-> "exists", driver |-> "running",
          browser_name |-> browser_name, outcome |-> "none"]

\* The browser fixture after its yield: driver.quit(), which may raise, then
\* finally removes temp_dir.
browser_teardown(f, quit_raises) ==
    [f EXCEPT !.pc = "done",
              !.driver = "quit",
              !.temp_dir = "removed",
              !.outcome = IF quit_raises THEN "error" ELSE @]

\* pytest_terminal_summary: what it leaves of the session. With Jira
\* reporting disabled it returns at once. Otherwise it reports the collected
\* results, attaches and deletes screenshots when the execution has a key,
\* and in every case goes on to remove SCREENSHOT_DIR with what is left in it.
pytest_terminal_summary(enabled, test_results, shots, dir, result) ==
    IF ~enabled
    THEN [summary |-> "disabled", screenshots |-> shots,
          screenshot_dir |-> dir]
    ELSE [summary |->
              IF test_results = <<>> THEN "no results"
              ELSE IF result = "raises" THEN "error"
              ELSE IF result = "None" THEN "not reported"
              ELSE "reported",
          screenshots |-> 0,
          screenshot_dir |-> "removed"]

SessionInit ==
    /\ basket = NoBasket
    /\ last = NoCall
    /\ prev = NoCall
    /\ calls = 0
    /\ total = 0
    /\ failed = FALSE
    /\ plain = TRUE
    /\ basket_capacity = 0
    /\ NoScenario
    /\ example = NoExample
    /\ JIRA_ENABLED \in BOOLEAN
    /\ stats = <<>>
    /\ screenshots = 0
    /\ screenshot_dir = "exists"
    /\ fx = NoFixture
    /\ summary = "none"

\* A web test requests the browser fixture.
BrowserSetup ==
    /\ summary = "none"
    /\ fx.pc \in {"idle", "done"}
    /\ Len(stats) < MaxTests
    /\ \E browser_name \in Browsers, created \in BOOLEAN, ready \in BOOLEAN :
          LET f == browser_setup(browser_name, created, ready)
          IN  /\ fx' = f
              /\ stats' = IF f.pc = "done" THEN Append(stats, f.outcome)
                          ELSE stats
    /\ UNCHANGED <<JIRA_ENABLED, screenshots, screenshot_dir, summary>>
    /\ UNCHANGED <<bvars, svars, example>>

\* The steps of the web test run with the driver; a failing step may save a
\* screenshot into SCREENSHOT_DIR before it fails.
WebTest ==
    /\ fx.pc = "yielded"
    /\ \E outcome \in {"passed", "failed"}, shot \in BOOLEAN :
          /\ fx' = [fx EXCEPT !.pc = "tested", !.outcome = outcome]
          /\ screenshots' = IF outcome = "failed" /\ shot
                            THEN screenshots + 1 ELSE screenshots
    /\ UNCHANGED <<JIRA_ENABLED, stats, screenshot_dir, summary>>
    /\ UNCHANGED <<bvars, svars, example>>

\* The runner resumes the fixture after the test, passed or failed.
BrowserTeardown ==
    /\ fx.pc = "tested"
    /\ \E quit_raises \in BOOLEAN :
          LET f == browser_teardown(fx, quit_raises)
          IN  /\ fx' = f
              /\ stats' = Append(stats, f.outcome)
    /\ UNCHANGED <<JIRA_ENABLED, screenshots, screenshot_dir, summary>>
    /\ UNCHANGED <<bvars, svars, example>>

\* The session ends: the runner calls pytest_terminal_summary once.
TerminalSummary ==
    /\ summary = "none"
    /\ fx.pc \in {"idle", "done"}
    /\ \E result \in ReportResults :
          LET r == pytest_terminal_summary(JIRA_ENABLED, stats, screenshots,
                                           screenshot_dir, result)
          IN  /\ summary' = r.summary
              /\ screenshots' = r.screenshots
              /\ screenshot_dir' = r.screenshot_dir
    /\ UNCHANGED <<JIRA_ENABLED, stats, fx>>
    /\ UNCHANGED <<bvars, svars, example>>

SessionNext ==
    \/ BrowserSetup
    \/ WebTest
    \/ BrowserTeardown
    \/ TerminalSummary

SessionSpec == SessionInit /\ [][SessionNext]_vars

\* ------------------------------------------------------------ properties
TypeOK ==
    /\ basket = NoBasket \/ (basket._count \in Int /\ basket._max_count \in Int)
    /\ calls \in 0 .. MaxCalls

\* The argument of the add or remove call recorded in c.
Arg(c) == c.args[1]

\* C1: once the basket is constructed, after any calls of add and remove with
\* any integer arguments, 0 <= count <= max_count.
C1_CountWithinCapacity ==
    basket # NoBasket =>
        0 <= basket._count /\ basket._count <= basket._max_count

\* C2: add(n) fails with the capacity error and leaves count as it was when
\* count + n > max_count, and otherwise succeeds with count = count + n; it
\* fails for no other reason, whatever the sign of n.
C2_AddContract ==
    last.op = "add" =>
        LET candidate == last.pre._count + Arg(last)
        IN  IF candidate > last.pre._max_count
            THEN last.raised = CapacityExceeded
                 /\ basket._count = last.pre._count
            ELSE last.raised = NoError /\ basket._count = candidate

\* A negative argument refused by add, on a basket that remove of a negative
\* argument has left above its capacity.
C2_Witness ==
    /\ last.op = "add"
    /\ Arg(last) < 0
    /\ last.raised = CapacityExceeded
    /\ basket._count = last.pre._count
    /\ prev.op = "remove"
    /\ prev.raised = NoError

\* C3: remove(n) fails with the underflow error and leaves count as it was
\* when count - n < 0, and otherwise succeeds with count = count - n; it
\* fails for no other reason, whatever the sign of n.
C3_RemoveContract ==
    last.op = "remove" =>
        LET candidate == last.pre._count - Arg(last)
        IN  IF candidate < 0
            THEN last.raised = Underflow /\ basket._count = last.pre._count
            ELSE last.raised = NoError /\ basket._count = candidate

\* A remove refused after a remove that succeeded.
C3_Witness ==
    /\ last.op = "remove"
    /\ Arg(last) > 0
    /\ last.raised = Underflow
    /\ prev.op = "remove"
    /\ prev.raised = NoError
    /\ Arg(prev) > 0

\* C4: the constructor fails with an invalid-argument error, and binds no
\* object, when initial_count < 0 or max_count < 0.
C4_ConstructRejectsNegative ==
    last.op = "__init__" /\ (last.args[1] < 0 \/ last.args[2] < 0) =>
        last.raised \in InvalidArgument /\ basket = NoBasket

\* A constructor call refused for its max_count alone.
C4_Witness ==
    /\ last.op = "__init__"
    /\ last.args[1] >= 0
    /\ last.args[2] < 0
    /\ last.raised = MaxNegative
    /\ basket = NoBasket

\* C5: the constructor succeeds only with 0 <= initial_count <= max_count:
\* with initial_count > max_count it fails, so no basket starts above its
\* capacity.
C5_ConstructRejectsOverCapacity ==
    last.op = "__init__" =>
        /\ last.args[1] > last.args[2] => last.raised # NoError
        /\ basket # NoBasket =>
              0 <= basket._count /\ basket._count <= basket._max_count

\* C6: max_count is the value given to the constructor and no call of add
\* or remove, failed or not, and no read of a property changes it.
C6_CapacityImmutable ==
    /\ [](last.op = "__init__" /\ basket # NoBasket =>
             basket._max_count = last.args[2])
    /\ [][basket # NoBasket =>
             basket' # NoBasket /\ basket'._max_count = basket._max_count]_vars

\* A refused add after a remove that succeeded, the capacity being read next.
C6_Witness ==
    /\ last.op = "max_count"
    /\ prev.op = "add"
    /\ prev.raised = CapacityExceeded
    /\ calls >= 2
    /\ last.ret = basket._max_count

\* C7: full is count = max_count and empty is count = 0 in every state, and
\* a read of either returns the value for the count at the time of the read.
C7_FlagsFollowCount ==
    basket # NoBasket =>
        /\ full(basket) <=> (basket._count = basket._max_count)
        /\ empty(basket) <=> (basket._count = 0)
        /\ last.op = "full" =>
              (last.ret <=> (basket._count = basket._max_count))
        /\ last.op = "empty" => (last.ret <=> (basket._count = 0))

\* full read as true right after the add that filled the basket.
C7_Witness ==
    /\ last.op = "full"
    /\ last.ret = TRUE
    /\ prev.op = "add"
    /\ prev.raised = NoError
    /\ Arg(prev) > 0

\* C8: a read of count, max_count, full or empty leaves the object as it
\* was, and two reads of the same property with no add or remove in between
\* return the same value.
C8_ReadsArePure ==
    /\ last.op \in ReadOps => basket = last.pre
    /\ last.op \in ReadOps /\ prev.op \in ReadOps =>
          /\ basket = prev.pre
          /\ prev.op = last.op => last.ret = prev.ret

\* count read twice in a row after some add or remove.
C8_Witness ==
    /\ last.op = "count"
    /\ prev.op = "count"
    /\ calls >= 1
    /\ last.ret = basket._count

\* C9: add(max_count - count) succeeds and leaves the basket full;
\* add(max_count - count + 1) fails with the capacity error and leaves
\* count as it was.
C9_AddBoundary ==
    last.op = "add" =>
        LET room == last.pre._max_count - last.pre._count
        IN  /\ Arg(last) = room => last.raised = NoError /\ full(basket)
            /\ Arg(last) = room + 1 =>
                  /\ last.raised = CapacityExceeded
                  /\ basket._count = last.pre._count

\* The basket filled exactly by one add, and the next add(1) refused.
C9_Witness ==
    /\ last.op = "add"
    /\ Arg(last) = 1
    /\ last.raised = CapacityExceeded
    /\ prev.op = "add"
    /\ Arg(prev) = prev.pre._max_count - prev.pre._count
    /\ Arg(prev) > 0
    /\ prev.raised = NoError
    /\ full(basket)

\* C10: remove(count) succeeds and leaves the basket empty; remove(count + 1)
\* fails with the underflow error and leaves count as it was.
C10_RemoveBoundary ==
    last.op = "remove" =>
        LET had == last.pre._count
        IN  /\ Arg(last) = had => last.raised = NoError /\ empty(basket)
            /\ Arg(last) = had + 1 =>
                  last.raised = Underflow /\ basket._count = had

\* The basket emptied exactly by one remove, and the next remove(1) refused.
C10_Witness ==
    /\ last.op = "remove"
    /\ Arg(last) = 1
    /\ last.raised = Underflow
    /\ prev.op = "remove"
    /\ Arg(prev) = prev.pre._count
    /\ Arg(prev) > 0
    /\ prev.raised = NoError
    /\ empty(basket)

\* C11: when no add or remove call has failed, count is the count at
\* construction plus the sum of the signed arguments (+n for add(n), -n for
\* remove(n)) of all calls.
C11_CountIsSumOfDeltas ==
    basket # NoBasket /\ ~failed => basket._count = total

\* Three calls, none failed, the last two an add and a remove of more than 1.
C11_Witness ==
    /\ basket # NoBasket
    /\ ~failed
    /\ calls >= 3
    /\ last.op = "remove"
    /\ Arg(last) > 1
    /\ prev.op = "add"
    /\ Arg(prev) > 1
    /\ basket._count = total

\* C12: add(n) that succeeds, followed at once by remove(n) that succeeds,
\* leaves count as it was before the add.
C12_AddRemoveRoundTrip ==
    /\ last.op = "remove"
    /\ prev.op = "add"
    /\ last.raised = NoError
    /\ prev.raised = NoError
    /\ Arg(last) = Arg(prev)
    => basket._count = prev.pre._count

\* add(n) and remove(n) of the same n > 1, both succeeding.
C12_Witness ==
    /\ last.op = "remove"
    /\ prev.op = "add"
    /\ last.raised = NoError
    /\ prev.raised = NoError
    /\ Arg(last) = Arg(prev)
    /\ Arg(last) > 1
    /\ basket._count = prev.pre._count

\* Two calls agree: both succeed or both fail, with the same count after.
SameOutcome(r1, r2) ==
    /\ (r1.raised = NoError) <=> (r2.raised = NoError)
    /\ r1.self._count = r2.self._count

\* C13: for every n > 0, add(-n) has the outcome of remove(n) and remove(-n)
\* the outcome of add(n): the same success or failure and the same count.
C13_NegativeArgumentSymmetry ==
    basket # NoBasket =>
        \A n \in 1 .. MaxArg :
            /\ SameOutcome(add(basket, -n), remove(basket, n))
            /\ SameOutcome(remove(basket, -n), add(basket, n))

\* C14: a basket constructed with initial_count = 0 and max_count >= 0 is
\* empty, and is full exactly when max_count = 0.
C14_FreshBasketFlags ==
    last.op = "__init__" /\ last.args[1] = 0 /\ last.args[2] >= 0 =>
        /\ basket # NoBasket
        /\ empty(basket)
        /\ full(basket) <=> (last.args[2] = 0)

\* A basket just constructed with room in it: empty and not full.
C14_Witness ==
    /\ last.op = "__init__"
    /\ last.args[1] = 0
    /\ last.args[2] > 0
    /\ basket # NoBasket
    /\ empty(basket)
    /\ ~full(basket)

\* C16: the Given step does one add(N) on the scenario's basket, which the
\* fixture created with count 0: with N <= max_count the count is N
\* afterwards; otherwise the capacity error of add comes out of the handler
\* as it is, the count stays and the scenario is aborted.
C16_GivenStep ==
    \A s \in Scenarios :
        step[s].kind = "given" =>
            /\ step[s].pre._count = 0
            /\ BasketOf(s)._max_count = step[s].pre._max_count
            /\ IF step[s].arg <= step[s].pre._max_count
               THEN /\ step[s].raised = NoError
                    /\ BasketOf(s)._count = step[s].arg
                    /\ pc[s] = "given"
               ELSE /\ step[s].raised = CapacityExceeded
                    /\ BasketOf(s)._count = 0
                    /\ pc[s] = "aborted"

\* A Given step with more cucumbers than the basket takes: aborted at 0.
C16_Witness ==
    \E s \in Scenarios :
        /\ step[s].kind = "given"
        /\ step[s].arg > basket_capacity
        /\ step[s].raised = CapacityExceeded
        /\ pc[s] = "aborted"
        /\ BasketOf(s)._count = 0

\* C17: a When step does one call of its operation with the step's N on the
\* scenario's basket, add for "added" and remove for "removed", and when the
\* call fails its error comes out of the handler as it is with the count
\* unchanged.
C17_WhenSteps ==
    \A s \in Scenarios :
        LET b == step[s].pre
            N == step[s].arg
        IN  /\ step[s].kind = "when_add" =>
                  IF b._count + N > b._max_count
                  THEN /\ step[s].raised = CapacityExceeded
                       /\ BasketOf(s) = b
                  ELSE /\ step[s].raised = NoError
                       /\ BasketOf(s) = [b EXCEPT !._count = b._count + N]
            /\ step[s].kind = "when_remove" =>
                  IF b._count - N < 0
                  THEN /\ step[s].raised = Underflow
                       /\ BasketOf(s) = b
                  ELSE /\ step[s].raised = NoError
                       /\ BasketOf(s) = [b EXCEPT !._count = b._count - N]

\* A second When step, removing more than the basket has, refused.
C17_Witness ==
    \E s \in Scenarios :
        /\ step[s].kind = "when_remove"
        /\ whens[s] = 2
        /\ step[s].arg > 0
        /\ step[s].pre._count > 0
        /\ step[s].raised = Underflow
        /\ BasketOf(s) = step[s].pre

\* C18: the Then step passes exactly when count = N; otherwise it raises an
\* assertion failure saying "Expected N cucumbers but found count"; either
\* way it leaves count and max_count as they were.
C18_ThenStep ==
    \A s \in Scenarios :
        step[s].kind = "then" =>
            LET actual == step[s].pre._count
                N == step[s].arg
            IN  /\ (step[s].raised = NoError) <=> (actual = N)
                /\ (pc[s] = "then") <=> (actual = N)
                /\ actual # N =>
                      step[s].raised =
                          "Expected " \o ToString(N)
                              \o " cucumbers but found " \o ToString(actual)
                /\ BasketOf(s) = step[s].pre

\* A Then step expecting 2 of a basket that has 1.
C18_Witness ==
    \E s \in Scenarios :
        /\ step[s].kind = "then"
        /\ step[s].arg = 2
        /\ step[s].pre._count = 1
        /\ step[s].raised = "Expected 2 cucumbers but found 1"
        /\ pc[s] = "failed"

\* The call of add or remove made by the Given or When step st has failed.
StepCallFailed(st) ==
    \/ /\ st.kind \in {"given", "when_add"}
       /\ st.pre._count + st.arg > st.pre._max_count
    \/ /\ st.kind = "when_remove"
       /\ st.pre._count - st.arg < 0

\* C19: a Given or When step whose call fails aborts its scenario, and an
\* aborted scenario executes no further step: its Then step is never
\* reached and its basket stays as it is.
C19_FailedStepAborts ==
    /\ [](\A s \in Scenarios : StepCallFailed(step[s]) => pc[s] = "aborted")
    /\ [][\A s \in Scenarios :
             pc[s] = "aborted" =>
                 /\ pc'[s] = "aborted"
                 /\ step'[s] = step[s]
                 /\ whens'[s] = whens[s]
                 /\ ref'[s] = ref[s]
                 /\ ref[s] # 0 => heap'[ref[s]] = heap[ref[s]]]_vars

\* Given 0 cucumbers, When 1 is removed: aborted with the underflow error,
\* while the other scenario has gone on to pass its Then step.
C19_Witness ==
    \E s, t \in Scenarios :
        /\ s # t
        /\ step[s].kind = "when_remove"
        /\ step[s].arg = 1
        /\ step[s].pre._count = 0
        /\ whens[s] = 1
        /\ step[s].raised = Underflow
        /\ pc[s] = "aborted"
        /\ pc[t] = "then"

\* C20: each scenario has a basket of its own, created with count 0, and a
\* step of one scenario changes the basket of no other scenario, however the
\* steps of the scenarios interleave.
C20_ScenarioIsolation ==
    /\ [](\A s \in Scenarios :
             /\ pc[s] = "fresh" => BasketOf(s)._count = 0
             /\ \A t \in Scenarios :
                   s # t /\ ref[s] # 0 => ref[t] # ref[s])
    /\ [][\A s \in Scenarios :
             /\ ref[s] # 0
             /\ pc'[s] = pc[s]
             /\ step'[s] = step[s]
             /\ whens'[s] = whens[s]
             => ref'[s] = ref[s] /\ heap'[ref[s]] = heap[ref[s]]]_vars

\* Two scenarios past their When steps with different counts.
C20_Witness ==
    \E s, t \in Scenarios :
        /\ s # t
        /\ pc[s] = "when"
        /\ pc[t] = "when"
        /\ whens[s] = 2
        /\ whens[t] = 1
        /\ BasketOf(s)._count # BasketOf(t)._count

\* The place of a phase in the order of a scenario; a scenario that was
\* aborted or has failed its Then step is at its end.
PhaseRank(phase) ==
    CASE phase = "uninit" -> 0
      [] phase = "fresh" -> 1
      [] phase = "given" -> 2
      [] phase = "when" -> 3
      [] phase \in {"then", "aborted", "failed"} -> 4

\* Scenario s executes a step in this transition.
Steps(s) == step'[s] # step[s] \/ pc'[s] # pc[s] \/ whens'[s] # whens[s]

\* C21: the phase of a scenario only moves forward, uninitialized, Given
\* applied, When applied any number of times, Then verified: the Given step
\* runs on the fresh basket before any When step, every When step before the
\* Then step, and nothing runs after the Then step.
C21_PhasesMoveForward ==
    [][\A s \in Scenarios :
          /\ PhaseRank(pc'[s]) >= PhaseRank(pc[s])
          /\ Steps(s) /\ step'[s].kind = "given" =>
                pc[s] = "fresh" /\ whens[s] = 0
          /\ Steps(s) /\ step'[s].kind \in {"when_add", "when_remove"} =>
                pc[s] \in {"given", "when"}
          /\ Steps(s) /\ step'[s].kind = "then" => pc[s] \in {"given", "when"}
          /\ pc[s] = "then" => ~Steps(s)]_vars

\* A scenario verified by its Then step after two When steps.
C21_Witness ==
    \E s \in Scenarios :
        /\ pc[s] = "then"
        /\ whens[s] = 2
        /\ step[s].kind = "then"

\* C25: a basket constructed with 0 <= initial_count <= max_count, on which
\* add and remove were called with arguments >= 0 only, has
\* 0 <= count <= max_count, whichever of the calls failed.
C25_PlainCallsStayInRange ==
    basket # NoBasket /\ plain =>
        0 <= basket._count /\ basket._count <= basket._max_count

\* Three calls with arguments >= 0 on such a basket, the last one an add
\* refused at the capacity after a remove that succeeded.
C25_Witness ==
    /\ basket # NoBasket
    /\ plain
    /\ calls >= 3
    /\ failed
    /\ last.op = "add"
    /\ Arg(last) > 0
    /\ last.raised = CapacityExceeded
    /\ prev.op = "remove"
    /\ Arg(prev) > 0
    /\ prev.raised = NoError

\* C26: the constructor accepts initial_count > max_count >= 0 and gives
\* count = initial_count; while count > max_count the basket is not full and
\* every add(n) with n >= 0 fails and leaves count as it was; only remove, or
\* add of a negative argument, brings count back to max_count or below.
C26_OverfullBasket ==
    /\ last.op = "__init__" /\ last.args[1] > last.args[2] /\ last.args[2] >= 0
          => /\ last.raised = NoError
             /\ basket # NoBasket
             /\ basket._count = last.args[1]
    /\ basket # NoBasket /\ basket._count > basket._max_count =>
          /\ ~full(basket)
          /\ \A n \in 0 .. MaxArg :
                /\ add(basket, n).raised = CapacityExceeded
                /\ add(basket, n).self = basket
    /\ last.op = "add" /\ Arg(last) >= 0
          /\ last.pre._count > last.pre._max_count
          => last.raised = CapacityExceeded /\ basket = last.pre
    /\ last.op \in {"add", "remove"} \cup ReadOps
          /\ last.pre._count > last.pre._max_count
          /\ basket._count <= basket._max_count
          => \/ last.op = "remove"
             \/ last.op = "add" /\ Arg(last) < 0

\* A basket constructed above its capacity has refused add(0).
C26_Witness ==
    /\ last.op = "add"
    /\ Arg(last) = 0
    /\ last.raised = CapacityExceeded
    /\ prev.op = "__init__"
    /\ prev.args[1] > prev.args[2]
    /\ basket._count = prev.args[1]
    /\ ~full(basket)

\* The scenario "s1" has stopped: passed, failed in Then, or aborted before.
ExampleEnded == pc["s1"] \in {"then", "failed", "aborted"}

\* C22: the scenario 'Given the basket has a, When b cucumbers are added,
\* Then the basket contains t', with a, b, t >= 0 and a + b <= capacity,
\* passes exactly when t = a + b; so (3, 2, 5) passes, and (1, 4, 5) and
\* (10, 0, 10) pass when the capacity is at least 10.
C22_AddScenarioPasses ==
    LET a == example.initial
        b == example.count
        t == example.total
    IN  /\ ExampleEnded /\ a + b <= basket_capacity =>
              /\ pc["s1"] = "then" <=> t = a + b
              /\ count(BasketOf("s1")) = a + b
        /\ ExampleEnded /\ basket_capacity >= 10
              /\ <<a, b, t>> \in {<<3, 2, 5>>, <<1, 4, 5>>, <<10, 0, 10>>}
              => pc["s1"] = "then"

\* The outline row (initial=10, count=0, total=10) has passed at a capacity
\* of at least 10.
C22_Witness ==
    /\ pc["s1"] = "then"
    /\ example = [initial |-> 10, count |-> 0, total |-> 10]
    /\ basket_capacity >= 10
    /\ step["s1"].kind = "then"
    /\ step["s1"].raised = NoError
    /\ count(BasketOf("s1")) = 10

\* C27: pytest_terminal_summary removes SCREENSHOT_DIR on every path on which
\* it returns: Jira reporting disabled, no results, reporting failed or
\* raised, reporting succeeded.
C27_SummaryRemovesScreenshotDir ==
    summary # "none" => screenshot_dir = "removed"

\* C28: once the browser fixture has finished, on any path, its temporary
\* directory is removed and a WebDriver that was created has been quit.
C28_FixtureTearsDown ==
    fx.pc = "done" =>
        /\ fx.temp_dir = "removed"
        /\ fx.driver \in {"none", "quit"}

====
